---- MODULE Spec2Model ----
(***************************************************************************)
(* Model of the MCPO subprocess supervisor (class MCPOManager) and of its  *)
(* callers.  The host runtime is single-threaded and cooperative: a        *)
(* handler runs from one await to the next without interruption, so every  *)
(* action below is the code between two suspension points of one call, or  *)
(* one event callback.  Time is the millisecond clock Date.now(); it is    *)
(* advanced from one instant at which a sleep or a timer is due to the     *)
(* next, and whatever is due runs before time passes again.                *)
(***************************************************************************)
EXTENDS Integers, Sequences, FiniteSets, TLC

----------------------------------------------------------------------------
(* Bounds of the model *)

MaxCalls == 2

MaxProcs == 3

MaxNowSec == 17

AutoProcs == 4

AutoNowSec == 40

MaxOverflow == 3

MaxServers == 3

MaxSubscribers == 2

SubProcs == 2

SubNowSec == 7

MaxRows == 2

MaxDbWrites == 2

MaxLeftover == 3

MaxRegens == 1

CfgCalls == 1

CfgProcs == 2

CfgNowSec == 5

MaxStops == 2

StopProcs == 2

StopNowSec == 13

MaxIoCalls == 2

ReadProcs == 2

ReadNowSec == 16

Limits == {0, 1, 2, 50, 100, 999, 1000, 1001}

(* Program constants *)

NULL == -1

GraceMs == 2000

StopTimeoutMs == 10000

BackoffBaseMs == 5000

MaxAutoRestarts == 3

LogCapacity == 1000

StatusHistoryCapacity == 100

ExitCodes == {1}

SpawnErrno == -2

NoError == <<>>

VARIABLES
    now,        \* Date.now(), in ms
    env,        \* process.env: [apiKey, port], whether each variable is set
    mgr,        \* the fields of the MCPOManager singleton
    procs,      \* every ChildProcess spawned so far, in spawn order
    timers,     \* pending auto-restart timeouts
    calls,      \* every start()/stop()/restart() call made so far
    db,         \* the rows of the mcpServer table
    dir,        \* the config files in the scratch directory .tmp
    gen,        \* the generateConfig() calls made so far, with their locals
    buf,        \* a CircularBuffer on its own, with the pushes made to it
    val         \* a validateServers() call on its own: input and result

vars == <<now, env, mgr, procs, timers, calls, db, dir, gen, buf, val>>

----------------------------------------------------------------------------
(* CircularBuffer *)

\* BufPush that drops the item just pushed instead of the oldest one
BufPush_EvictNewest(buffer, item, maxSize) ==
    IF Len(buffer) >= maxSize THEN buffer ELSE Append(buffer, item)

BufPush(buffer, item, maxSize) ==
    LET pushed == Append(buffer, item)
    IN  IF Len(pushed) > maxSize THEN Tail(pushed) ELSE pushed

\* Array.prototype.slice(start) with one argument
Slice(array, start) ==
    LET len  == Len(array)
        from == IF start < 0
                THEN (IF len + start > 0 THEN len + start ELSE 0)
                ELSE (IF start < len THEN start ELSE len)
    IN  SubSeq(array, from + 1, len)

GetLast(buffer, n) ==
    Slice(buffer, 0 - n)

(* An array handed to a caller.  slice() and [...buffer] allocate a new     *)
(* array with the items of that moment; live tells that the array is the   *)
(* buffer's own, whose items are whatever the buffer holds when read.      *)

\* NewArray that hands out the buffer's own array
NewArray_Alias(items) ==
    [live |-> TRUE, items |-> items]

NewArray(items) ==
    [live |-> FALSE, items |-> items]

\* the items a caller finds in an array it was handed
Items(array, buffer) ==
    IF array.live THEN buffer ELSE array.items

\* CircularBuffer.getAll()
GetAll(buffer) ==
    buffer

----------------------------------------------------------------------------
(* ChildProcess objects.  A process that exits with a code has exitCode    *)
(* set and signalCode null; one terminated by a signal has signalCode set  *)
(* and exitCode null.  A spawn that fails gives a handle without a pid,    *)
(* whose exitCode is the negative errno.  Three fields are bookkeeping:    *)
(* sig is the last signal the supervisor sent to the process, unexpected   *)
(* tells that its 'exit' listener took the unexpected-exit branch, and     *)
(* restartIn is the delay of the auto-restart that listener scheduled.     *)

NewProc(p, ok) ==
    [pid        |-> IF ok THEN 1000 + p ELSE NULL,
     exitCode   |-> IF ok THEN NULL ELSE SpawnErrno,
     signalCode |-> "null",
     sig        |-> "none",
     unexpected |-> FALSE,
     restartIn  |-> NULL]

Exited(pr) == pr.exitCode # NULL \/ pr.signalCode # "null"

Alive(pr) == ~Exited(pr)

----------------------------------------------------------------------------
(* The synchronous pieces of MCPOManager.  Each takes and returns a world  *)
(* w = [m, procs, timers, pc, t0]: the manager's fields, the processes,    *)
(* the timers, and where the running call suspends next (pc) with the      *)
(* local it keeps across the suspension (t0).                              *)

World ==
    [m |-> [mgr EXCEPT !.delivered = <<>>],
     procs |-> procs, timers |-> timers, pc |-> "run", t0 |-> 0]

Log(w, message) ==
    [w EXCEPT !.m.logs = BufPush(@, <<now, message>>, LogCapacity)]

\* eventEmitter.emit('statusChange', change): every listener registered at
\* this moment is called once, in registration order, with the manager as
\* it is now.  m.delivered lists the calls made to listeners by the handler
\* that is running: whom, with which record, and what the listener reads
\* from the manager then (getStatus().status, the last history entry).
Emit(w, change) ==
    [w EXCEPT !.m.emitted = @ + 1,
              !.m.delivered = @ \o
                  [i \in 1..Len(w.m.listeners) |->
                      [to     |-> w.m.listeners[i],
                       change |-> change,
                       status |-> w.m.status,
                       last   |-> GetLast(w.m.statusHistory, 1)]]]

\* SetStatus that notifies the subscribers before it records the change
SetStatus_EmitFirst(w, status, message) ==
    LET change == [status |-> status, timestamp |-> now, message |-> message]
        w1 == Emit(w, change)
        w2 == [w1 EXCEPT !.m.status = status,
                         !.m.statusHistory = BufPush(@, change, StatusHistoryCapacity)]
    IN  Log(w2, <<"Status changed to", status>>)

SetStatus(w, status, message) ==
    LET change == [status |-> status, timestamp |-> now, message |-> message]
        w1 == [w EXCEPT !.m.status = status,
                        !.m.statusHistory = BufPush(@, change, StatusHistoryCapacity)]
    IN  Log(Emit(w1, change), <<"Status changed to", status>>)

Kill(w, signal) ==
    LET p == w.m.process
    IN  IF Alive(w.procs[p]) THEN [w EXCEPT !.procs[p].sig = signal] ELSE w

StartCatch(w, errorMsg) ==
    LET w1 == [w EXCEPT !.m.lastError = errorMsg]
        w2 == SetStatus(w1, "error", <<"Failed to start MCPO">> \o errorMsg)
    IN  [w2 EXCEPT !.pc = "rejected"]

\* StartBody without the already-running early return
StartBody_NoGuard(w) ==
    [SetStatus(w, "starting", <<"Initializing MCPO...">>) EXCEPT !.pc = "gen"]

\* start() up to its first suspension, inside generateConfig()
StartBody(w) ==
    IF w.m.process # NULL /\ w.m.status = "running"
    THEN [Log(w, <<"MCPO is already running">>) EXCEPT !.pc = "resolved"]
    ELSE [SetStatus(w, "starting", <<"Initializing MCPO...">>) EXCEPT !.pc = "gen"]

\* GenerateConfigCatch that logs the failure and keeps lastError as it was
GenerateConfigCatch_NoLastError(w, errorMsg) ==
    Log(w, <<"Failed to generate config">> \o errorMsg)

\* the catch block of generateConfig(), which returns null
GenerateConfigCatch(w, errorMsg) ==
    [Log(w, <<"Failed to generate config">> \o errorMsg)
        EXCEPT !.m.lastError = errorMsg]

\* generateConfig() from its last suspension to its return
GenerateConfigDone(w, ok) ==
    IF ok
    THEN Log([w EXCEPT !.m.configFile = now], <<"Generated config">>)
    ELSE GenerateConfigCatch(w, <<"No valid servers found in configuration">>)

\* StartSpawn that takes port 8000 when NEXT_PUBLIC_MCPO_PORT is not set
StartSpawn_DefaultPort(w, genOk, spawnOk) ==
    LET w1 == GenerateConfigDone(w, genOk)
        p  == Len(w1.procs) + 1
        w2 == Log(w1, <<"Starting MCPO">>)
        w3 == [w2 EXCEPT !.procs = Append(@, NewProc(p, spawnOk)),
                         !.m.process = p]
    IN  IF ~genOk THEN StartCatch(w1, <<"Failed to generate configuration">>)
        ELSE IF ~env.apiKey
             THEN StartCatch(w1, <<"MCPO_API_KEY not found in environment">>)
        ELSE IF ~spawnOk THEN StartCatch(w3, <<"Failed to start MCPO process">>)
        ELSE [w3 EXCEPT !.pc = "grace", !.t0 = now + GraceMs]

\* start() from the return of generateConfig(), which left the world w1,
\* to the grace sleep
StartAfterConfig(w1, genOk, spawnOk) ==
    LET p  == Len(w1.procs) + 1
        w2 == Log(w1, <<"Starting MCPO">>)
        w3 == [w2 EXCEPT !.procs = Append(@, NewProc(p, spawnOk)),
                         !.m.process = p]
    IN  IF ~genOk THEN StartCatch(w1, <<"Failed to generate configuration">>)
        ELSE IF ~env.apiKey
             THEN StartCatch(w1, <<"MCPO_API_KEY not found in environment">>)
        ELSE IF ~env.port
             THEN StartCatch(w1, <<"NEXT_PUBLIC_MCPO_PORT environment variable is required but not set">>)
        ELSE IF ~spawnOk THEN StartCatch(w3, <<"Failed to start MCPO process">>)
        ELSE [w3 EXCEPT !.pc = "grace", !.t0 = now + GraceMs]

\* the same, with generateConfig() taken by its outcome only
StartSpawn(w, genOk, spawnOk) ==
    StartAfterConfig(GenerateConfigDone(w, genOk), genOk, spawnOk)

\* StartAfterGrace that clears lastError when the process is up
StartAfterGrace_ClearError(w) ==
    LET p == w.m.process
    IN  IF p = NULL
        THEN StartCatch(w, <<"Cannot read properties of null (reading 'exitCode')">>)
        ELSE IF w.procs[p].exitCode # NULL
        THEN StartCatch(w, <<"MCPO exited immediately with code", w.procs[p].exitCode>>)
        ELSE LET w1 == [w EXCEPT !.m.startTime = now, !.m.lastError = NoError]
                 w2 == SetStatus(w1, "running", <<"MCPO started with PID", w.procs[p].pid>>)
             IN  [Log(w2, <<"MCPO is running on">>) EXCEPT !.pc = "resolved"]

\* start() after the grace sleep
StartAfterGrace(w) ==
    LET p == w.m.process
    IN  IF p = NULL
        THEN StartCatch(w, <<"Cannot read properties of null (reading 'exitCode')">>)
        ELSE IF w.procs[p].exitCode # NULL
        THEN StartCatch(w, <<"MCPO exited immediately with code", w.procs[p].exitCode>>)
        ELSE LET w1 == [w EXCEPT !.m.startTime = now]
                 w2 == SetStatus(w1, "running", <<"MCPO started with PID", w.procs[p].pid>>)
             IN  [Log(w2, <<"MCPO is running on">>) EXCEPT !.pc = "resolved"]

\* StopFinally that resets nothing (the reset left out of the finally block)
StopFinally_NoReset(w) ==
    w

\* the finally block of stop()
StopFinally(w) ==
    [w EXCEPT !.m.isShuttingDown = FALSE]

StopCatch(w, errorMsg) ==
    LET w1 == [w EXCEPT !.m.lastError = errorMsg]
        w2 == SetStatus(w1, "error", <<"Failed to stop MCPO">> \o errorMsg)
    IN  [StopFinally(w2) EXCEPT !.pc = "rejected"]

\* stop() once its polling loop has ended
StopTail(w) ==
    LET p  == w.m.process
        w1 == IF w.procs[p].exitCode = NULL
              THEN Kill(Log(w, <<"MCPO did not stop gracefully, force killing...">>), "SIGKILL")
              ELSE w
        w2 == [w1 EXCEPT !.m.process = NULL, !.m.startTime = NULL]
        w3 == SetStatus(w2, "stopped", <<"MCPO stopped">>)
    IN  [StopFinally(w3) EXCEPT !.pc = "resolved"]

\* the test of stop()'s polling loop, with pollStart its local startTime
PollAgain(w, pollStart) ==
    /\ w.procs[w.m.process].exitCode = NULL
    /\ now - pollStart < StopTimeoutMs

\* stop() up to its first suspension
StopBody(w) ==
    IF w.m.process = NULL \/ w.m.status = "stopped"
    THEN [Log(w, <<"MCPO is not running">>) EXCEPT !.pc = "resolved"]
    ELSE LET w1 == [w EXCEPT !.m.isShuttingDown = TRUE]
             w2 == SetStatus(w1, "stopping", <<"Shutting down MCPO...">>)
             w3 == Kill(w2, "SIGTERM")
         IN  IF PollAgain(w3, now)
             THEN [w3 EXCEPT !.pc = "poll", !.t0 = now]
             ELSE StopTail(w3)

\* stop() resumed from a sleep of its polling loop that ends the loop
StopAfterPoll(w, pollStart) ==
    IF w.m.process = NULL
    THEN StopCatch(w, <<"Cannot read properties of null (reading 'exitCode')">>)
    ELSE StopTail(w)

\* restart(): what follows the await of stop()
AfterStop(w, op) ==
    IF op = "restart" /\ w.pc = "resolved"
    THEN StartBody([w EXCEPT !.pc = "run"])
    ELSE w

\* RestartBody that counts the restart only once stop() has not thrown
RestartBody_CountAfterStop(w) ==
    LET w1 == SetStatus(w, "restarting", <<"Restarting MCPO...">>)
        w2 == StopBody(w1)
        w3 == [w2 EXCEPT !.m.restartCount = @ + 1, !.m.lastRestart = now]
    IN  IF w2.pc = "resolved" THEN AfterStop(w3, "restart") ELSE w2

\* restart() up to its first suspension
RestartBody(w) ==
    LET w1 == SetStatus(w, "restarting", <<"Restarting MCPO...">>)
        w2 == [w1 EXCEPT !.m.restartCount = @ + 1, !.m.lastRestart = now]
    IN  AfterStop(StopBody(w2), "restart")

\* ExitHandler with the retry test off by one (<= for <)
ExitHandler_OneMoreRetry(w, p, code) ==
    LET w1 == Log(w, <<"MCPO exited with code", code>>)
        w2 == [w1 EXCEPT !.m.lastError = <<"Process exited unexpectedly with code", code>>,
                         !.procs[p].unexpected = TRUE]
        w3 == SetStatus(w2, "error", w2.m.lastError)
        rc == w3.m.restartCount
    IN  IF w.m.isShuttingDown THEN w1
        ELSE IF rc <= MaxAutoRestarts
        THEN [w3 EXCEPT !.timers = @ \cup
                            {[proc |-> p, due |-> now + BackoffBaseMs * (rc + 1)]},
                        !.procs[p].restartIn = BackoffBaseMs * (rc + 1)]
        ELSE w3

\* the 'exit' listener of setupProcessHandlers()
ExitHandler(w, p, code) ==
    LET w1 == Log(w, <<"MCPO exited with code", code>>)
        w2 == [w1 EXCEPT !.m.lastError = <<"Process exited unexpectedly with code", code>>,
                         !.procs[p].unexpected = TRUE]
        w3 == SetStatus(w2, "error", w2.m.lastError)
        rc == w3.m.restartCount
    IN  IF w.m.isShuttingDown THEN w1
        ELSE IF rc < MaxAutoRestarts
        THEN [w3 EXCEPT !.timers = @ \cup
                            {[proc |-> p, due |-> now + BackoffBaseMs * (rc + 1)]},
                        !.procs[p].restartIn = BackoffBaseMs * (rc + 1)]
        ELSE w3

----------------------------------------------------------------------------
(* JavaScript values as they occur in a server's config.  A string is the  *)
(* sequence of its characters.                                             *)

JsString(chars) == [t |-> "string", chars |-> chars]

JsArray(items) == [t |-> "array", items |-> items]

JsNumber(n) == [t |-> "number", n |-> n]

JsObject(fields) == [t |-> "object", fields |-> fields]

JsNull == [t |-> "null"]

JsUndefined == [t |-> "undefined"]

\* !v
Falsy(v) ==
    \/ v.t \in {"null", "undefined"}
    \/ v.t = "string" /\ v.chars = <<>>
    \/ v.t = "number" /\ v.n = 0

\* String.prototype.startsWith
StartsWith(chars, prefix) ==
    /\ Len(chars) >= Len(prefix)
    /\ SubSeq(chars, 1, Len(prefix)) = prefix

\* key in object
HasKey(object, key) == key \in DOMAIN object.fields

\* object[key]
GetKey(object, key) ==
    IF HasKey(object, key) THEN object.fields[key] ELSE JsUndefined

npx == <<"n", "p", "x">>

sse == <<"s", "s", "e">>

streamableHttp ==
    <<"s", "t", "r", "e", "a", "m", "a", "b", "l", "e", "-", "h", "t", "t", "p">>

http == <<"h", "t", "t", "p">>

----------------------------------------------------------------------------
(* validateServers().  A server is [uniqueId, name, config]; uniqueId and   *)
(* name are texts, <<>> standing for an absent or empty uniqueId.          *)

Valid == <<>>

\* server.uniqueId || server.name
ServerName(server) ==
    IF server.uniqueId # <<>> THEN server.uniqueId ELSE server.name

\* the body of the try block for one server: Valid, or the error recorded
CheckConfig(config) ==
    IF config.t # "object"
    THEN <<"Cannot use 'in' operator to search for 'command' in", config.t>>
    ELSE IF HasKey(config, "command")
    THEN IF Falsy(GetKey(config, "command")) THEN <<"Missing command">>
         ELSE IF GetKey(config, "args").t # "array" THEN <<"Args must be an array">>
         ELSE Valid
    ELSE IF HasKey(config, "type") /\ HasKey(config, "url")
    THEN LET type == GetKey(config, "type")
             url  == GetKey(config, "url")
         IN  IF type.t # "string" \/ type.chars \notin {sse, streamableHttp}
             THEN <<"Invalid type", type>>
             ELSE IF url.t # "string" \/ Falsy(url) \/ ~StartsWith(url.chars, http)
             THEN <<"Invalid URL", url>>
             ELSE Valid
    ELSE <<"Invalid server configuration">>

\* ValidateOne that records a failing server in no list
ValidateOne_DropInvalid(v, server) ==
    LET serverName == ServerName(server)
        error      == CheckConfig(server.config)
        v1 == [v EXCEPT !.w = Log(@, <<"Validating server", serverName>>)]
    IN  IF error = Valid
        THEN [v1 EXCEPT !.validServers = Append(@, serverName)]
        ELSE v1

\* one turn of the loop over the servers
ValidateOne(v, server) ==
    LET serverName == ServerName(server)
        error      == CheckConfig(server.config)
        v1 == [v EXCEPT !.w = Log(@, <<"Validating server", serverName>>)]
    IN  IF error = Valid
        THEN [v1 EXCEPT !.validServers = Append(@, serverName)]
        ELSE [v1 EXCEPT !.errors = Append(@, [server |-> serverName, error |-> error]),
                        !.invalidServers = Append(@, serverName)]

\* validateServers(servers): the world with its log lines and the result
ValidateServers(w, servers) ==
    LET loop[i \in 0..Len(servers)] ==
            IF i = 0
            THEN [w |-> Log(w, <<"Validating servers from database", Len(servers)>>),
                  errors |-> <<>>, validServers |-> <<>>, invalidServers |-> <<>>]
            ELSE ValidateOne(loop[i - 1], servers[i])
        v == loop[Len(servers)]
    IN  [w |-> v.w, valid |-> v.errors = <<>>, errors |-> v.errors,
         validServers |-> v.validServers, invalidServers |-> v.invalidServers]

----------------------------------------------------------------------------
(* The mcpServer table and the two reads generateConfig() makes of it.  A   *)
(* row is [id, name, mcpServerUniqueId, type, command, remoteServerType,   *)
(* url]; row i is named Name(i), so that the order by name is the order by *)
(* id.  mcpServerUniqueId is <<>> between the two writes of createServer(). *)

Name(i) == <<"name", i>>

UniqueId(i) == <<"slug", i>>

\* findMany({ orderBy: { name: 'asc' } })
FindMany(rows) ==
    [k \in 1..Cardinality(rows) |->
        CHOOSE r \in rows : Cardinality({q \in rows : q.id < r.id}) = k - 1]

\* the config object both reads build from a row
RowConfig(row) ==
    IF row.type = "Local"
    THEN JsObject([command |-> row.command, args |-> JsArray(<<>>)])
    ELSE JsObject([type |-> JsString(IF row.remoteServerType = "sse"
                                     THEN sse ELSE streamableHttp),
                   url  |-> row.url])

GetAllServersWithMetadataForAdmin(rows) ==
    LET servers == FindMany(rows)
    IN  [k \in 1..Len(servers) |->
            [uniqueId |-> servers[k].mcpServerUniqueId,
             name     |-> servers[k].name,
             config   |-> RowConfig(servers[k])]]

\* the mcpServers object, keyed by mcpServerUniqueId: a later row replaces
\* an earlier one with the same key
GetAllServersForAdmin(rows) ==
    LET servers == FindMany(rows)
        last(key) == CHOOSE k \in 1..Len(servers) :
                        /\ servers[k].mcpServerUniqueId = key
                        /\ \A j \in (k + 1)..Len(servers) :
                              servers[j].mcpServerUniqueId # key
    IN  [key \in {r.mcpServerUniqueId : r \in rows} |-> RowConfig(servers[last(key)])]

----------------------------------------------------------------------------
(* generateConfig() and cleanupOldConfigFiles().  A config file is         *)
(* [timestamp, mcpServers]: the number in its name and its content.  The   *)
(* clock of the model starts at 0 when the manager is constructed, so the  *)
(* files left by an earlier run of the host have negative timestamps.     *)

\* the invalidServers object built from validation.errors
InvalidServersOf(errors) ==
    LET last(server) == CHOOSE k \in 1..Len(errors) :
                           /\ errors[k].server = server
                           /\ \A j \in (k + 1)..Len(errors) : errors[j].server # server
    IN  [server \in {errors[k].server : k \in 1..Len(errors)} |->
            errors[last(server)].error]

\* GenerateConfigRead1 without the test for an empty validServers
GenerateConfigRead1_NoEmptyCheck(w, rows) ==
    LET v  == ValidateServers(w, GetAllServersWithMetadataForAdmin(rows))
        w1 == [v.w EXCEPT !.m.validServers = v.validServers,
                          !.m.invalidServers = InvalidServersOf(v.errors)]
    IN  [w |-> w1, ok |-> TRUE,
         validServers |-> v.validServers, invalidServers |-> v.invalidServers]

\* generateConfig() from its first read of the table to its second
GenerateConfigRead1(w, rows) ==
    LET v  == ValidateServers(w, GetAllServersWithMetadataForAdmin(rows))
        w1 == [v.w EXCEPT !.m.validServers = v.validServers,
                          !.m.invalidServers = InvalidServersOf(v.errors)]
    IN  IF v.validServers = <<>>
        THEN [w |-> GenerateConfigDone(w1, FALSE), ok |-> FALSE,
              validServers |-> v.validServers, invalidServers |-> v.invalidServers]
        ELSE [w |-> w1, ok |-> TRUE,
              validServers |-> v.validServers, invalidServers |-> v.invalidServers]

\* generateConfig() from its second read of the table to the file system
\* calls: the filtered config
GenerateConfigRead2(w, rows, validServers) ==
    LET config == GetAllServersForAdmin(rows)
        keys   == {key \in DOMAIN config :
                      \E i \in 1..Len(validServers) : validServers[i] = key}
        w1 == Log(w, <<"Raw config keys", DOMAIN config>>)
        w2 == Log(w1, <<"Valid server keys", validServers>>)
    IN  [w |-> Log(w2, <<"Filtered config keys", keys>>),
         filteredConfig |-> [key \in keys |-> config[key]]]

\* generateConfig() when one of its two reads of the table is rejected
GenerateConfigReadFailed(w) ==
    GenerateConfigCatch(w, <<"Can't reach database server">>)

\* the files cleanupOldConfigFiles() keeps: all if there are at most 3,
\* else the 3 with the greatest timestamps
KeptFiles(files) ==
    IF Cardinality(files) > 3
    THEN {f \in files : Cardinality({g \in files : g.timestamp > f.timestamp}) < 3}
    ELSE files

\* the files cleanupOldConfigFiles() deletes, newest first
FilesToDelete(files) ==
    LET old == files \ KeptFiles(files)
    IN  [k \in 1..Cardinality(old) |->
            CHOOSE f \in old :
                Cardinality({g \in old : g.timestamp > f.timestamp}) = k - 1]

\* the outcomes of the file system calls of one generateConfig(): whether
\* mkdir, readdir, the unlinks of the cleanup, writeFile and the unlink of
\* the previous config file succeed
FsOutcomes ==
    [mkdir : BOOLEAN, readdir : BOOLEAN, unlink : BOOLEAN,
     writeFile : BOOLEAN, unlinkPrev : BOOLEAN]

FsOk ==
    [mkdir |-> TRUE, readdir |-> TRUE, unlink |-> TRUE,
     writeFile |-> TRUE, unlinkPrev |-> TRUE]

RECURSIVE LogAll(_, _)
LogAll(w, messages) ==
    IF messages = <<>> THEN w
    ELSE LogAll(Log(w, Head(messages)), Tail(messages))

CleanupOldConfigFilesFs(w, files, fs) ==
    LET w1 == Log(w, <<"Starting cleanup of old config files">>)
        w2 == Log(w1, <<"Found config files", Cardinality(files)>>)
        toDelete == FilesToDelete(files)
        w3 == Log(w2, <<"Will delete old files", Len(toDelete)>>)
    IN  IF ~fs.readdir
        THEN [w |-> Log(w1, <<"Warning: Could not cleanup old config files">>),
              files |-> files]
        ELSE IF Cardinality(files) > 3
        THEN IF fs.unlink
             THEN [w |-> LogAll(w3, [k \in 1..Len(toDelete) |->
                            <<"Successfully deleted old config file", toDelete[k].timestamp>>]),
                   files |-> KeptFiles(files)]
             ELSE [w |-> LogAll(w3, [k \in 1..Len(toDelete) |->
                            <<"Failed to delete", toDelete[k].timestamp>>]),
                   files |-> files]
        ELSE [w |-> Log(w2, <<"no cleanup needed">>), files |-> files]

\* cleanupOldConfigFiles() when every file system call succeeds
CleanupOldConfigFiles(w, files) ==
    CleanupOldConfigFilesFs(w, files, FsOk)

\* generateConfig() from mkdir to its return: mkdir, cleanup, write of the
\* new file, unlink of the previous one
GenerateConfigWriteFs(w, files, filteredConfig, fs) ==
    LET c == CleanupOldConfigFilesFs(w, files, fs)
        configPath == now
        written == {f \in c.files : f.timestamp # configPath}
                       \cup {[timestamp |-> configPath, mcpServers |-> filteredConfig]}
        unlinked == IF /\ c.w.m.configFile # NULL
                       /\ c.w.m.configFile # configPath
                       /\ fs.unlinkPrev
                    THEN {f \in written : f.timestamp # c.w.m.configFile}
                    ELSE written
    IN  IF ~fs.mkdir
        THEN [w |-> GenerateConfigCatch(w, <<"EACCES: permission denied, mkdir">>),
              files |-> files, configPath |-> NULL]
        ELSE IF ~fs.writeFile
        THEN [w |-> GenerateConfigCatch(c.w, <<"ENOSPC: no space left on device, write">>),
              files |-> c.files, configPath |-> NULL]
        ELSE [w |-> GenerateConfigDone(c.w, TRUE), files |-> unlinked,
              configPath |-> configPath]

\* the same when every file system call succeeds
GenerateConfigWrite(w, files, filteredConfig) ==
    GenerateConfigWriteFs(w, files, filteredConfig, FsOk)

----------------------------------------------------------------------------
\* getStatus(), the fields that are computed
GetStatus ==
    [status      |-> mgr.status,
     uptime      |-> IF mgr.startTime # NULL
                     THEN (now - mgr.startTime) \div 1000 ELSE 0,
     processId   |-> IF mgr.process # NULL THEN procs[mgr.process].pid ELSE NULL,
     lastRestart |-> mgr.lastRestart,
     restartCount |-> mgr.restartCount,
     recentLogs  |-> GetLast(mgr.logs, 50),
     statusHistory |-> GetLast(mgr.statusHistory, 20),
     configFile  |-> mgr.configFile,
     lastError   |-> mgr.lastError]

----------------------------------------------------------------------------
(* The state after construction (the field initialisers of MCPOManager) *)

InitManager ==
    /\ now = 0
    /\ mgr = [process        |-> NULL,
              status         |-> "stopped",
              logs           |-> <<>>,
              statusHistory  |-> <<>>,
              listeners      |-> <<>>,
              emitted        |-> 0,
              delivered      |-> <<>>,
              validServers   |-> <<>>,
              invalidServers |-> <<>>,
              startTime      |-> NULL,
              lastRestart    |-> NULL,
              restartCount   |-> 0,
              configFile     |-> NULL,
              lastError      |-> NoError,
              isShuttingDown |-> FALSE]
    /\ procs = <<>>
    /\ timers = {}
    /\ calls = <<>>

Init ==
    /\ InitManager
    /\ env \in [apiKey : BOOLEAN, port : BOOLEAN]
    /\ db = [rows |-> {}, writes |-> 0]
    /\ dir = {}
    /\ gen = <<>>
    /\ buf = <<>>
    /\ val = <<>>

----------------------------------------------------------------------------
(* Calls.  A call is [op, auto, pc, t0]: pc is "gen" while start() awaits  *)
(* generateConfig(), "grace" while it sleeps the grace window (t0 is the   *)
(* time the sleep ends), "poll" while stop() sleeps in its polling loop    *)
(* (t0 is its local startTime), and "resolved" or "rejected" once the      *)
(* promise is settled.  auto marks the restart() made by the timer.        *)

Active(c) == calls[c].pc \in {"gen", "grace", "poll"}

ManualCalls == {c \in 1..Len(calls) : ~calls[c].auto}

AutoCalls == {c \in 1..Len(calls) : calls[c].auto}

\* the .catch() of the auto-restart timer callback
AutoRestartCatch(w, auto) ==
    IF auto /\ w.pc = "rejected" THEN Log(w, <<"Auto-restart failed">>) ELSE w

Commit(w) ==
    /\ mgr' = w.m
    /\ procs' = w.procs
    /\ timers' = w.timers
    /\ UNCHANGED <<buf, val>>

NewCall(op, auto, w) ==
    calls' = Append(calls, [op |-> op, auto |-> auto, pc |-> w.pc, t0 |-> w.t0])

Suspend(c, w) ==
    calls' = [calls EXCEPT ![c].pc = w.pc, ![c].t0 = w.t0]

PollDue(c) ==
    /\ calls[c].pc = "poll"
    /\ IF mgr.process = NULL THEN TRUE ELSE ~PollAgain(World, calls[c].t0)

GraceDue(c) ==
    /\ calls[c].pc = "grace"
    /\ now >= calls[c].t0

\* a caller outside the supervisor (an API route, MCPService) calls start()
Start ==
    /\ LET w == StartBody(World)
       IN  Commit(w) /\ NewCall("start", FALSE, w)
    /\ UNCHANGED <<now, env, db, dir, gen>>

Stop ==
    /\ LET w == StopBody(World)
       IN  Commit(w) /\ NewCall("stop", FALSE, w)
    /\ UNCHANGED <<now, env, db, dir, gen>>

Restart ==
    /\ LET w == RestartBody(World)
       IN  Commit(w) /\ NewCall("restart", FALSE, w)
    /\ UNCHANGED <<now, env, db, dir, gen>>

\* generateConfig() returns to the start() of call c
GenDone(c) ==
    /\ calls[c].pc = "gen"
    /\ \E genOk \in BOOLEAN, spawnOk \in BOOLEAN :
         LET w == AutoRestartCatch(StartSpawn(World, genOk, spawnOk), calls[c].auto)
         IN  Commit(w) /\ Suspend(c, w)
    /\ UNCHANGED <<now, env, db, dir, gen>>

\* the grace sleep of call c ends
GraceDone(c) ==
    /\ GraceDue(c)
    /\ LET w == AutoRestartCatch(StartAfterGrace(World), calls[c].auto)
       IN  Commit(w) /\ Suspend(c, w)
    /\ UNCHANGED <<now, env, db, dir, gen>>

\* a sleep of the polling loop of call c ends and the loop is left
PollDone(c) ==
    /\ PollDue(c)
    /\ LET w == AutoRestartCatch(
                    AfterStop(StopAfterPoll(World, calls[c].t0), calls[c].op),
                    calls[c].auto)
       IN  Commit(w) /\ Suspend(c, w)
    /\ UNCHANGED <<now, env, db, dir, gen>>

\* child process p terminates: with an exit code, or by a signal (code NULL)
ProcExit(p, code) ==
    /\ Alive(procs[p])
    /\ procs[p].sig = "SIGKILL" => code = NULL
    /\ LET signal == IF code # NULL THEN "null"
                     ELSE IF procs[p].sig = "none" THEN "SIGSEGV"
                     ELSE procs[p].sig
           w0 == [World EXCEPT !.procs[p].exitCode = code,
                               !.procs[p].signalCode = signal]
       IN  Commit(ExitHandler(w0, p, code))
    /\ UNCHANGED <<now, env, calls, db, dir, gen>>

\* the auto-restart timeout t fires
TimerFire(t) ==
    /\ now >= t.due
    /\ LET w0 == Log([World EXCEPT !.timers = @ \ {t}], <<"Attempting auto-restart...">>)
           w  == AutoRestartCatch(RestartBody(w0), TRUE)
       IN  Commit(w) /\ NewCall("restart", TRUE, w)
    /\ UNCHANGED <<now, env, db, dir, gen>>

\* the instants at which a sleep or a timer becomes due
Deadlines ==
    {calls[c].t0 : c \in {d \in 1..Len(calls) : calls[d].pc = "grace"}}
    \cup {calls[c].t0 + StopTimeoutMs : c \in {d \in 1..Len(calls) : calls[d].pc = "poll"}}
    \cup {t.due : t \in timers}

NextInstant ==
    CHOOSE d \in Deadlines : \A e \in Deadlines : d <= e

\* time passes up to the next instant at which something is due; nothing
\* that is due is left waiting
Tick(horizonSec) ==
    /\ Deadlines # {}
    /\ NextInstant <= horizonSec * 1000
    /\ \A t \in timers : now < t.due
    /\ \A c \in 1..Len(calls) : ~GraceDue(c) /\ ~PollDue(c)
    /\ now' = NextInstant
    /\ UNCHANGED <<env, mgr, procs, timers, calls, db, dir, gen, buf, val>>

Events(maxProcs, horizonSec) ==
    \/ \E c \in 1..Len(calls) : Len(procs) < maxProcs /\ GenDone(c)
    \/ \E c \in 1..Len(calls) : GraceDone(c)
    \/ \E c \in 1..Len(calls) : PollDone(c)
    \/ \E p \in 1..Len(procs), code \in ExitCodes \cup {NULL} : ProcExit(p, code)
    \/ \E t \in timers : TimerFire(t)
    \/ Tick(horizonSec)

(* Callers may call at any time, also while earlier calls are in flight *)

MayCall == Cardinality(ManualCalls) < MaxCalls

Next ==
    \/ MayCall /\ Start
    \/ MayCall /\ Stop
    \/ MayCall /\ Restart
    \/ Events(MaxProcs, MaxNowSec)

Spec == Init /\ [][Next]_vars

(* Callers that wait for their previous call to settle before the next *)

NoManualActive == \A c \in ManualCalls : ~Active(c)

NextSeq ==
    \/ MayCall /\ NoManualActive /\ Start
    \/ MayCall /\ NoManualActive /\ Stop
    \/ MayCall /\ NoManualActive /\ Restart
    \/ Events(MaxProcs, MaxNowSec)

SpecSeq == Init /\ [][NextSeq]_vars

(* One start(), then no manual operation: only crashes and timers *)

NextAuto ==
    \/ calls = <<>> /\ Start
    \/ Events(AutoProcs, AutoNowSec)

SpecAuto == Init /\ [][NextAuto]_vars

----------------------------------------------------------------------------
(* start() with generateConfig() in full: the table is written by the      *)
(* MCPService operations while calls are in flight, the scratch directory  *)
(* may hold files of earlier runs of the host, and the regenerate-config   *)
(* route calls generateConfig() directly.  The child, once spawned, keeps  *)
(* running here: its exits, stop() and restart() are explored by the       *)
(* specifications above, which take generateConfig() by its outcome.  A    *)
(* generateConfig() call is [caller, pc, validServers, invalidServers,     *)
(* filteredConfig, configPath]: caller is the start() call that made it (0 *)
(* for the route), pc is "read2" while it awaits its second read of the    *)
(* table, "write" while it awaits the file system, then "done";            *)
(* validServers and invalidServers are its validation result,              *)
(* filteredConfig the content it writes and configPath what it returned    *)
(* (NULL for null).                                                        *)

RowShapes ==
    {[type |-> "Local", command |-> JsString(npx),
      remoteServerType |-> "null", url |-> JsNull],
     [type |-> "Remote", command |-> JsNull,
      remoteServerType |-> "streamable_http",
      url |-> JsString(<<"f", "t", "p", ":", "/", "/", "x">>)]}

Row(i, uniqueId, shape) ==
    [id |-> i, name |-> Name(i), mcpServerUniqueId |-> uniqueId,
     type |-> shape.type, command |-> shape.command,
     remoteServerType |-> shape.remoteServerType, url |-> shape.url]

Tables ==
    {rows \in SUBSET {Row(i, UniqueId(i), shape) : i \in 1..MaxRows, shape \in RowShapes} :
        \A r, q \in rows : r.id = q.id => r = q}

Leftovers ==
    {{[timestamp |-> 0 - k, mcpServers |-> <<>>] : k \in 1..n} : n \in {0, MaxLeftover}}

InitCfg ==
    /\ InitManager
    /\ env = [apiKey |-> TRUE, port |-> TRUE]
    /\ \E rows \in Tables : db = [rows |-> rows, writes |-> 0]
    /\ dir \in Leftovers
    /\ gen = <<>>
    /\ buf = <<>>
    /\ val = <<>>

DbWrite(rows) ==
    /\ db.writes < MaxDbWrites
    /\ db' = [rows |-> rows, writes |-> db.writes + 1]
    /\ UNCHANGED <<now, env, mgr, procs, timers, calls, dir, gen, buf, val>>

\* createServer(): the row is created with an empty mcpServerUniqueId
CreateServer(i, shape) ==
    /\ \A r \in db.rows : r.id # i
    /\ DbWrite(db.rows \cup {Row(i, <<>>, shape)})

\* createServer(): the update that sets the generated unique id
AssignUniqueId(i) ==
    \E r \in db.rows :
        /\ r.id = i
        /\ r.mcpServerUniqueId = <<>>
        /\ DbWrite((db.rows \ {r}) \cup {[r EXCEPT !.mcpServerUniqueId = UniqueId(i)]})

\* updateServer() with the name unchanged
UpdateServer(i, shape) ==
    \E r \in db.rows :
        /\ r.id = i
        /\ r.mcpServerUniqueId # <<>>
        /\ Row(i, r.mcpServerUniqueId, shape) # r
        /\ DbWrite((db.rows \ {r}) \cup {Row(i, r.mcpServerUniqueId, shape)})

DeleteServer(i) ==
    \E r \in db.rows :
        /\ r.id = i
        /\ r.mcpServerUniqueId # <<>>
        /\ DbWrite(db.rows \ {r})

GenCall(caller, r) ==
    [caller |-> caller, pc |-> IF r.ok THEN "read2" ELSE "done",
     validServers |-> r.validServers, invalidServers |-> r.invalidServers,
     filteredConfig |-> <<>>, configPath |-> NULL]

\* POST /api/mcpo/regenerate-config: generateConfig() up to its second read
Regenerate ==
    /\ Cardinality({g \in 1..Len(gen) : gen[g].caller = 0}) < MaxRegens
    /\ LET r == GenerateConfigRead1(World, db.rows)
       IN  /\ Commit(r.w)
           /\ gen' = Append(gen, GenCall(0, r))
    /\ UNCHANGED <<now, env, calls, db, dir>>

\* the generateConfig() of the start() of call c makes its first read
GenRead1(c) ==
    /\ calls[c].pc = "gen"
    /\ \A g \in 1..Len(gen) : gen[g].caller # c
    /\ LET r == GenerateConfigRead1(World, db.rows)
           w == AutoRestartCatch(StartAfterConfig(r.w, FALSE, FALSE), calls[c].auto)
       IN  IF r.ok
           THEN /\ Commit(r.w)
                /\ gen' = Append(gen, GenCall(c, r))
                /\ UNCHANGED calls
           ELSE /\ Commit(w)
                /\ gen' = Append(gen, GenCall(c, r))
                /\ Suspend(c, w)
    /\ UNCHANGED <<now, env, db, dir>>

\* generateConfig() call g makes its second read
GenRead2(g) ==
    /\ gen[g].pc = "read2"
    /\ LET r == GenerateConfigRead2(World, db.rows, gen[g].validServers)
       IN  /\ Commit(r.w)
           /\ gen' = [gen EXCEPT ![g].pc = "write",
                                 ![g].filteredConfig = r.filteredConfig]
    /\ UNCHANGED <<now, env, calls, db, dir>>

\* generateConfig() call g cleans up, writes its file and returns; the
\* start() that called it goes on to spawn
GenWrite(g) ==
    /\ gen[g].pc = "write"
    /\ LET r == GenerateConfigWrite(World, dir, gen[g].filteredConfig)
           c == gen[g].caller
       IN  /\ dir' = r.files
           /\ gen' = [gen EXCEPT ![g].pc = "done", ![g].configPath = r.configPath]
           /\ IF c = 0
              THEN Commit(r.w) /\ UNCHANGED calls
              ELSE /\ Len(procs) < CfgProcs
                   /\ \E spawnOk \in BOOLEAN :
                        LET w == AutoRestartCatch(StartAfterConfig(r.w, TRUE, spawnOk),
                                                  calls[c].auto)
                        IN  Commit(w) /\ Suspend(c, w)
    /\ UNCHANGED <<now, env, db>>

CfgMayCall == Cardinality(ManualCalls) < CfgCalls /\ NoManualActive

NextCfg ==
    \/ \E i \in 1..MaxRows, shape \in RowShapes : CreateServer(i, shape)
    \/ \E i \in 1..MaxRows : AssignUniqueId(i)
    \/ \E i \in 1..MaxRows, shape \in RowShapes : UpdateServer(i, shape)
    \/ \E i \in 1..MaxRows : DeleteServer(i)
    \/ Regenerate
    \/ CfgMayCall /\ Start
    \/ \E c \in 1..Len(calls) : GenRead1(c)
    \/ \E g \in 1..Len(gen) : GenRead2(g)
    \/ \E g \in 1..Len(gen) : GenWrite(g)
    \/ \E c \in 1..Len(calls) : GraceDone(c)
    \/ Tick(CfgNowSec)

SpecCfg == InitCfg /\ [][NextCfg]_vars

----------------------------------------------------------------------------
(* Status subscribers: each open connection to the status stream route     *)
(* registers one listener and removes it when the connection closes.       *)

\* onStatusChange(callback), for the handler of connection s
OnStatusChange(s) ==
    /\ \A i \in 1..Len(mgr.listeners) : mgr.listeners[i] # s
    /\ Commit([World EXCEPT !.m.listeners = Append(@, s)])
    /\ UNCHANGED <<now, env, calls, db, dir, gen>>

\* offStatusChange(callback)
OffStatusChange(s) ==
    /\ \E i \in 1..Len(mgr.listeners) : mgr.listeners[i] = s
    /\ Commit([World EXCEPT !.m.listeners = SelectSeq(@, LAMBDA l : l # s)])
    /\ UNCHANGED <<now, env, calls, db, dir, gen>>

NextSub ==
    \/ \E s \in 1..MaxSubscribers : OnStatusChange(s)
    \/ \E s \in 1..MaxSubscribers : OffStatusChange(s)
    \/ MayCall /\ NoManualActive /\ Start
    \/ MayCall /\ NoManualActive /\ Stop
    \/ MayCall /\ NoManualActive /\ Restart
    \/ Events(SubProcs, SubNowSec)

SpecSub == Init /\ [][NextSub]_vars

----------------------------------------------------------------------------
(* generateConfig() with a database and a file system that may fail: the   *)
(* regenerate-config route is called, one call after the other, and each   *)
(* read of the table and each file system call succeeds or is rejected.    *)
(* A call is as above, with two fields more: failed is the step at which   *)
(* it gave up ("none" if it did not) and fs the outcomes of its file       *)
(* system calls.                                                           *)

IoCall(r, failed) ==
    [failed |-> failed, fs |-> FsOk] @@ GenCall(0, r)

AllReturned == \A g \in 1..Len(gen) : gen[g].pc = "done"

\* POST /api/mcpo/regenerate-config: generateConfig() up to its second read
RegenerateIo(readOk) ==
    /\ Len(gen) < MaxIoCalls
    /\ AllReturned
    /\ LET r == GenerateConfigRead1(World, db.rows)
           f == [w |-> GenerateConfigReadFailed(World), ok |-> FALSE,
                 validServers |-> <<>>, invalidServers |-> <<>>]
       IN  IF readOk
           THEN /\ Commit(r.w)
                /\ gen' = Append(gen, IoCall(r, IF r.ok THEN "none" ELSE "validation"))
           ELSE /\ Commit(f.w)
                /\ gen' = Append(gen, IoCall(f, "read1"))
    /\ UNCHANGED <<now, env, calls, db, dir>>

\* generateConfig() call g makes its second read
IoRead2(g, readOk) ==
    /\ gen[g].pc = "read2"
    /\ LET r == GenerateConfigRead2(World, db.rows, gen[g].validServers)
       IN  IF readOk
           THEN /\ Commit(r.w)
                /\ gen' = [gen EXCEPT ![g].pc = "write",
                                      ![g].filteredConfig = r.filteredConfig]
           ELSE /\ Commit(GenerateConfigReadFailed(World))
                /\ gen' = [gen EXCEPT ![g].pc = "done", ![g].failed = "read2"]
    /\ UNCHANGED <<now, env, calls, db, dir>>

\* generateConfig() call g makes its file system calls and returns
IoWrite(g, fs) ==
    /\ gen[g].pc = "write"
    /\ LET r == GenerateConfigWriteFs(World, dir, gen[g].filteredConfig, fs)
       IN  /\ Commit(r.w)
           /\ dir' = r.files
           /\ gen' = [gen EXCEPT ![g].pc = "done",
                                 ![g].configPath = r.configPath,
                                 ![g].fs = fs,
                                 ![g].failed = IF ~fs.mkdir THEN "mkdir"
                                               ELSE IF ~fs.writeFile THEN "writeFile"
                                               ELSE "none"]
    /\ UNCHANGED <<now, env, calls, db>>

\* a millisecond passes between two calls
Elapse ==
    /\ AllReturned
    /\ now < Len(gen)
    /\ Len(gen) < MaxIoCalls
    /\ now' = now + 1
    /\ UNCHANGED <<env, mgr, procs, timers, calls, db, dir, gen, buf, val>>

NextIo ==
    \/ \E readOk \in BOOLEAN : RegenerateIo(readOk)
    \/ \E g \in 1..Len(gen), readOk \in BOOLEAN : IoRead2(g, readOk)
    \/ \E g \in 1..Len(gen), fs \in FsOutcomes : IoWrite(g, fs)
    \/ Elapse

SpecIo == InitCfg /\ [][NextIo]_vars

----------------------------------------------------------------------------
(* A reader: after one start(), while the process runs, crashes and is     *)
(* restarted by the timer, a caller makes one of the three read calls and   *)
(* keeps what it was handed.  buf is then [call, arrays], each array with   *)
(* the buffer it was taken of and the items it had when it was returned.    *)

Returned(of, items) ==
    [of |-> of, array |-> NewArray(items), returned |-> items]

Read(call, arrays) ==
    /\ buf = <<>>
    /\ buf' = [call |-> call, arrays |-> arrays]
    /\ UNCHANGED <<now, env, mgr, procs, timers, calls, db, dir, gen, val>>

\* getStatus(): recentLogs and statusHistory
GetStatusCall ==
    Read("getStatus", <<Returned("logs", GetStatus.recentLogs),
                        Returned("statusHistory", GetStatus.statusHistory)>>)

\* getLogs(limit)
GetLogsCall(limit) ==
    Read("getLogs", <<Returned("logs", GetLast(mgr.logs, limit))>>)

\* getStatusHistory()
GetStatusHistoryCall ==
    Read("getStatusHistory", <<Returned("statusHistory", GetAll(mgr.statusHistory))>>)

NextRead ==
    \/ calls = <<>> /\ Start
    \/ GetStatusCall
    \/ \E limit \in Limits \ {0} : GetLogsCall(limit)
    \/ GetStatusHistoryCall
    \/ Events(ReadProcs, ReadNowSec)

SpecRead == Init /\ [][NextRead]_vars

----------------------------------------------------------------------------
(* One start(), then stop() calls that overlap: a caller calls stop()      *)
(* again while the stop() made before is still in its polling loop.  No    *)
(* stop() is called while a start() is in flight.                          *)

StopCalls == {c \in 1..Len(calls) : calls[c].op = "stop"}

MayStop ==
    /\ Cardinality(StopCalls) < MaxStops
    /\ StopCalls # {} => \E c \in StopCalls : calls[c].pc = "poll"
    /\ \A c \in 1..Len(calls) : calls[c].pc \notin {"gen", "grace"}

NextStop ==
    \/ calls = <<>> /\ Start
    \/ MayStop /\ Stop
    \/ Events(StopProcs, StopNowSec)

SpecStop == Init /\ [][NextStop]_vars

----------------------------------------------------------------------------
(* A CircularBuffer on its own: one of the two buffers the manager owns,   *)
(* logs (1000) or statusHistory (100).  The items pushed are numbered in   *)
(* push order, so the content tells which pushes are kept.  buf.limit and  *)
(* buf.got are the argument and the result of the last getLogs() call made *)
(* since the last push.                                                    *)

InitBuf ==
    /\ InitManager
    /\ env = [apiKey |-> TRUE, port |-> TRUE]
    /\ db = [rows |-> {}, writes |-> 0]
    /\ dir = {}
    /\ gen = <<>>
    /\ val = <<>>
    /\ \E maxSize \in {LogCapacity, StatusHistoryCapacity} :
          buf = [maxSize |-> maxSize, buffer |-> <<>>, pushes |-> 0,
                 limit |-> NULL, got |-> <<>>]

Push ==
    /\ buf.pushes < buf.maxSize + MaxOverflow
    /\ buf' = [buf EXCEPT !.buffer = BufPush(@, buf.pushes + 1, buf.maxSize),
                          !.pushes = @ + 1,
                          !.limit = NULL,
                          !.got = <<>>]
    /\ UNCHANGED <<now, env, mgr, procs, timers, calls, db, dir, gen, val>>

\* getLogs(limit)
GetLogs(limit) ==
    /\ buf' = [buf EXCEPT !.limit = limit, !.got = GetLast(buf.buffer, limit)]
    /\ UNCHANGED <<now, env, mgr, procs, timers, calls, db, dir, gen, val>>

NextBuf ==
    \/ Push
    \/ \E limit \in Limits : GetLogs(limit)

SpecBuf == InitBuf /\ [][NextBuf]_vars

----------------------------------------------------------------------------
(* validateServers() on its own, called once on an arbitrary server list.  *)
(* The i-th server has its own name; its uniqueId is empty, its own, or    *)
(* the name of the first server (so that two ids may coincide).            *)

Configs ==
    {JsNull,
     JsObject(<<>>),
     JsObject([command |-> JsString(npx), args |-> JsArray(<<>>)]),
     JsObject([command |-> JsString(<<>>), args |-> JsArray(<<>>)]),
     JsObject([command |-> JsNull, args |-> JsArray(<<>>)]),
     JsObject([command |-> JsString(npx)]),
     JsObject([command |-> JsString(npx), args |-> JsString(<<"-", "y">>)]),
     JsObject([command |-> JsString(npx), args |-> JsArray(<<>>),
               type |-> JsString(<<"w", "s">>), url |-> JsNull]),
     JsObject([type |-> JsString(sse), url |-> JsString(http \o <<":", "/", "/", "x">>)]),
     JsObject([type |-> JsString(streamableHttp),
               url |-> JsString(http \o <<"s", ":", "/", "/", "x">>)]),
     JsObject([type |-> JsString(<<"w", "s">>), url |-> JsString(http)]),
     JsObject([type |-> JsNumber(1), url |-> JsString(http)]),
     JsObject([type |-> JsString(sse), url |-> JsString(<<"f", "t", "p", ":", "/", "/", "x">>)]),
     JsObject([type |-> JsString(sse), url |-> JsString(http)]),
     JsObject([type |-> JsString(sse), url |-> JsString(<<>>)]),
     JsObject([type |-> JsString(sse), url |-> JsNull]),
     JsObject([type |-> JsString(sse)])}

ServersAt(i) ==
    [uniqueId : {<<>>, Name(1), UniqueId(i)}, name : {Name(i)}, config : Configs]

ServerLists ==
    UNION {{servers \in [1..n -> UNION {ServersAt(i) : i \in 1..n}] :
                \A i \in 1..n : servers[i] \in ServersAt(i)} : n \in 0..MaxServers}

InitVal ==
    /\ InitManager
    /\ env = [apiKey |-> TRUE, port |-> TRUE]
    /\ db = [rows |-> {}, writes |-> 0]
    /\ dir = {}
    /\ gen = <<>>
    /\ buf = <<>>
    /\ \E servers \in ServerLists :
          val = [servers |-> servers, done |-> FALSE, result |-> <<>>]

Validate ==
    /\ ~val.done
    /\ LET r == ValidateServers(World, val.servers)
       IN  /\ mgr' = r.w.m
           /\ val' = [val EXCEPT !.done = TRUE,
                                 !.result = [valid |-> r.valid, errors |-> r.errors,
                                             validServers |-> r.validServers,
                                             invalidServers |-> r.invalidServers]]
    /\ UNCHANGED <<now, env, procs, timers, calls, db, dir, gen, buf>>

NextVal == Validate

SpecVal == InitVal /\ [][NextVal]_vars

----------------------------------------------------------------------------
(* Claims *)

\* C1: at most one managed child process exists at a time: every process
\* that was spawned and has not exited is the one the process handle
\* references, also when start() and restart() calls overlap.
C1_SingleManagedProcess ==
    \A p \in 1..Len(procs) : Alive(procs[p]) => mgr.process = p

\* C2: concurrent restart requests are de-duplicated: at most one
\* stop-then-start sequence of restart() is executing at any time.
C2_RestartsDoNotOverlap ==
    Cardinality({c \in 1..Len(calls) : calls[c].op = "restart" /\ Active(c)}) <= 1

\* C3: the exit of a process that stop() terminated (it was sent SIGTERM or
\* SIGKILL by the supervisor) is never treated as an unexpected exit: its
\* 'exit' listener sets no lastError, no status error and schedules no
\* auto-restart, whenever the event is delivered.
C3_StopSuppressesCrashHandler ==
    \A p \in 1..Len(procs) :
        procs[p].sig # "none" =>
            ~procs[p].unexpected /\ procs[p].restartIn = NULL

----------------------------------------------------------------------------
UnexpectedExits == {p \in 1..Len(procs) : procs[p].unexpected}

\* the number of unexpected exits up to and including that of process p
ExitRank(p) == Cardinality({q \in UnexpectedExits : q <= p})

\* an 'exit' event of process p observed while isShuttingDown is false
C4_ExitStep(p) ==
    LET rc    == mgr.restartCount
        timer == [proc |-> p, due |-> now + 5000 * (rc + 1)]
    IN  /\ mgr'.lastError =
              <<"Process exited unexpectedly with code", procs'[p].exitCode>>
        /\ mgr'.status = "error"
        /\ mgr'.restartCount = rc
        /\ IF rc < 3
           THEN timer \notin timers /\ timers' = timers \cup {timer}
           ELSE timers' = timers

\* with no manual operation after the first start(): the k-th unexpected
\* exit schedules a restart after 5 s, 10 s, 15 s for k = 1, 2, 3 and none
\* from the 4th on, and every scheduled restart is one timer or one
\* timer-made restart() call
C4_Scenario ==
    /\ \A p \in UnexpectedExits :
          procs[p].restartIn =
              IF ExitRank(p) <= 3 THEN <<5000, 10000, 15000>>[ExitRank(p)] ELSE NULL
    /\ Cardinality(AutoCalls) + Cardinality(timers) =
          IF Cardinality(UnexpectedExits) <= 3 THEN Cardinality(UnexpectedExits) ELSE 3
    /\ Cardinality(UnexpectedExits) >= 4 => timers = {}

\* C4: every exit event observed while isShuttingDown is false sets
\* lastError and status error and schedules exactly one auto-restart iff
\* restartCount < 3 at that moment, 5000 ms x (restartCount + 1) later; so
\* with no manual operation, three unexpected exits from restartCount = 0
\* give exactly 3 auto-restarts after 5 s, 10 s and 15 s, and the 4th crash
\* leaves status error with no restart scheduled.
C4_UnexpectedExitPolicy ==
    /\ []C4_Scenario
    /\ [][\A p \in 1..Len(procs) :
             (Alive(procs[p]) /\ ~Alive(procs'[p]) /\ ~mgr.isShuttingDown)
                 => C4_ExitStep(p)]_vars

\* the 4th unexpected exit has happened, after three timer-made restarts
C4_Witness ==
    /\ Cardinality(UnexpectedExits) = 4
    /\ Cardinality(AutoCalls) = 3
    /\ mgr.restartCount = 3
    /\ mgr.status = "error"
    /\ timers = {}

----------------------------------------------------------------------------
\* a step in which the auto-restart timer calls restart()
AutoRestartBegins ==
    /\ Len(calls') = Len(calls) + 1
    /\ calls'[Len(calls')].auto

\* C5: failures are auto-retried up to 3 times: over any sequence of
\* crashes, manual calls and timer firings the supervisor makes at most 3
\* timer-triggered restart() calls, and none begins once restartCount is 3
\* or more.
C5_AtMostThreeAutoRestarts ==
    /\ [](Cardinality(AutoCalls) <= 3)
    /\ [][AutoRestartBegins => mgr.restartCount < 3]_vars

----------------------------------------------------------------------------
RestartCalls == {c \in 1..Len(calls) : calls[c].op = "restart"}

\* a step in which restart() is called (by a caller or by the timer)
C6_RestartStep ==
    LET n == Len(calls)
        h == Len(mgr.statusHistory)
    IN  (Len(calls') = n + 1 /\ calls'[n + 1].op = "restart")
        => /\ mgr'.restartCount = mgr.restartCount + 1
           /\ mgr'.lastRestart = now
           /\ Len(mgr'.statusHistory) > h
           /\ mgr'.statusHistory[h + 1].status = "restarting"

\* C6: every call to restart() increments restartCount by exactly 1, sets
\* lastRestart and first records status restarting, whether the stop() and
\* start() that follow succeed or throw; a restart() that rejects has its
\* increment applied.
C6_RestartAlwaysCounted ==
    /\ [](mgr.restartCount = Cardinality(RestartCalls))
    /\ [][C6_RestartStep]_vars

\* two restart() calls were made and counted, one resolved and one rejected
C6_Witness ==
    /\ mgr.restartCount = 2
    /\ \E c \in RestartCalls : calls[c].pc = "rejected"
    /\ \E c \in RestartCalls : calls[c].pc = "resolved"

----------------------------------------------------------------------------
\* a step in which start() is called from outside
C7_StartStep ==
    LET n == Len(calls)
    IN  (/\ Len(calls') = n + 1
         /\ calls'[n + 1].op = "start"
         /\ mgr.process # NULL
         /\ mgr.status = "running")
        => /\ procs' = procs
           /\ timers' = timers
           /\ calls'[n + 1].pc = "resolved"
           /\ mgr'.statusHistory = mgr.statusHistory
           /\ mgr'.emitted = mgr.emitted
           /\ mgr'.process = mgr.process
           /\ mgr'.startTime = mgr.startTime
           /\ mgr'.status = mgr.status
           /\ mgr'.restartCount = mgr.restartCount
           /\ mgr'.configFile = mgr.configFile
           /\ mgr'.lastError = mgr.lastError
           /\ mgr'.logs = Append(mgr.logs, <<now, <<"MCPO is already running">>>>)

\* C7: start() called while status is running with a process handle held
\* spawns nothing, calls no generateConfig(), appends no status-history
\* record, notifies no subscriber and leaves handle, startedAt, status,
\* restartCount, configFile and lastError as they were; it only appends a
\* log line.
C7_StartWhileRunningIsNoOp ==
    [][C7_StartStep]_vars

\* a start() was called while running and returned at once
C7_Witness ==
    /\ mgr.status = "running"
    /\ mgr.process # NULL
    /\ Len(calls) >= 2
    /\ calls[Len(calls)].op = "start"
    /\ calls[Len(calls)].pc = "resolved"
    /\ mgr.logs[Len(mgr.logs)][2] = <<"MCPO is already running">>

----------------------------------------------------------------------------
\* call c is a stop(), or the stop() inside a restart(), that settles in
\* this step: it was polling and no longer is, or it is made in this step
\* and finishes without suspending
C8_StopSettles(c) ==
    IF c <= Len(calls)
    THEN calls[c].pc = "poll" /\ calls'[c].pc # "poll"
    ELSE calls'[c].op \in {"stop", "restart"} /\ calls'[c].pc # "poll"

\* C8: after any stop() call resolves or rejects (no-op, graceful exit,
\* forced kill or an exception during termination) isShuttingDown is false.
C8_FlagClearedAfterStop ==
    [][\A c \in 1..Len(calls') : C8_StopSettles(c) => ~mgr'.isShuttingDown]_vars

\* a stop() has rejected (the handle was cleared under its polling loop)
\* and the flag is false
C8_Witness ==
    /\ \E c \in 1..Len(calls) : calls[c].op = "stop" /\ calls[c].pc = "rejected"
    /\ mgr.lastError = <<"Cannot read properties of null (reading 'exitCode')">>
    /\ ~mgr.isShuttingDown

----------------------------------------------------------------------------
\* C9: getStatus().uptime is 0 whenever status is not running.
C9_UptimeZeroUnlessRunning ==
    mgr.status # "running" => GetStatus.uptime = 0

\* C10: the process handle is null whenever status is stopped or error (it
\* is present only while status is starting, running, stopping or
\* restarting), so getStatus().processId is null in those states.
C10_HandleOnlyWhileActive ==
    mgr.status \in {"stopped", "error"} =>
        mgr.process = NULL /\ GetStatus.processId = NULL

----------------------------------------------------------------------------
\* the push numbers a buffer holds after `pushes` pushes when it keeps the
\* most recent min(pushes, capacity) of them in push order
MostRecent(pushes, capacity) ==
    LET kept == IF pushes < capacity THEN pushes ELSE capacity
    IN  [i \in 1..kept |-> pushes - kept + i]

\* C14: after any number of pushes the log buffer holds at most 1000
\* entries and the status history at most 100, and the content is the most
\* recent min(pushes, capacity) items in push order (a push to a full buffer
\* evicts exactly the oldest entry).
C14_BufferKeepsMostRecent ==
    /\ buf.maxSize \in {1000, 100}
    /\ Len(buf.buffer) <= buf.maxSize
    /\ buf.buffer = MostRecent(buf.pushes, buf.maxSize)

\* the log buffer is full and two pushes more were made
C14_Witness ==
    /\ buf.maxSize = 1000
    /\ buf.pushes = 1002
    /\ Len(buf.buffer) = 1000
    /\ buf.buffer[1] = 3

----------------------------------------------------------------------------
\* C19: getLogs(limit) returns the most recent limit log lines: for every
\* integer limit >= 0 the result is the suffix of the log buffer of length
\* min(limit, number of buffered lines), in push order.
C19_GetLogsReturnsSuffix ==
    buf.limit # NULL =>
        LET len  == Len(buf.buffer)
            kept == IF buf.limit < len THEN buf.limit ELSE len
        IN  buf.got = SubSeq(buf.buffer, len - kept + 1, len)

----------------------------------------------------------------------------
Range(seq) == {seq[i] : i \in 1..Len(seq)}

\* the ids of the input list, in input order
InputIds == [i \in 1..Len(val.servers) |-> ServerName(val.servers[i])]

\* list is the ids that are in it, in input order
InInputOrder(list) ==
    list = SelectSeq(InputIds, LAMBDA id : id \in Range(list))

\* C15: validateServers() classifies every input definition exactly once:
\* when the ids (uniqueId, or name when uniqueId is empty) are pairwise
\* distinct, each id is in exactly one of validServers and
\* invalidServers/errors, never both and never neither (so no failing
\* definition stops the others from being validated), and validServers
\* lists the valid ids in input order.
C15_EveryServerClassifiedOnce ==
    (val.done /\ Cardinality(Range(InputIds)) = Len(InputIds)) =>
        LET r == val.result
        IN  /\ Range(r.validServers) \cup Range(r.invalidServers) = Range(InputIds)
            /\ Range(r.validServers) \cap Range(r.invalidServers) = {}
            /\ Len(r.validServers) + Len(r.invalidServers) = Len(InputIds)
            /\ r.invalidServers = [i \in 1..Len(r.errors) |-> r.errors[i].server]
            /\ InInputOrder(r.validServers)
            /\ InInputOrder(r.invalidServers)

\* three servers with distinct ids were validated: the first and the third
\* are valid, the one between them made the validation throw
C15_Witness ==
    /\ val.done
    /\ Len(val.servers) = 3
    /\ val.servers[2].config = JsNull
    /\ val.result.validServers = <<Name(1), UniqueId(3)>>
    /\ val.result.invalidServers = <<UniqueId(2)>>

----------------------------------------------------------------------------
EnvMissing == ~env.apiKey \/ ~env.port

\* the start() of call c (its own, or the one inside restart()) comes back
\* from generateConfig() and goes on
C17_StartStep(c) ==
    (calls[c].pc = "gen" /\ calls'[c].pc # "gen")
        => /\ calls'[c].pc = "rejected"
           /\ procs' = procs
           /\ mgr'.status = "error"
           /\ mgr'.lastError \in
                 {<<"Failed to generate configuration">>,
                  <<"MCPO_API_KEY not found in environment">>,
                  <<"NEXT_PUBLIC_MCPO_PORT environment variable is required but not set">>}

\* C17: if MCPO_API_KEY or NEXT_PUBLIC_MCPO_PORT is missing from the
\* environment, start() spawns no process, sets lastError, ends with status
\* error and throws; no default value is substituted.
C17_MissingEnvIsFatal ==
    /\ [](EnvMissing =>
            /\ procs = <<>>
            /\ \A c \in 1..Len(calls) :
                  calls[c].op = "start" => calls[c].pc \in {"gen", "rejected"})
    /\ [][EnvMissing => \A c \in 1..Len(calls) : C17_StartStep(c)]_vars

\* with the API key set and the port missing, a start() has thrown for the
\* missing port and nothing was spawned
C17_Witness ==
    /\ env.apiKey /\ ~env.port
    /\ \E c \in 1..Len(calls) : calls[c].op = "start" /\ calls[c].pc = "rejected"
    /\ mgr.lastError =
          <<"NEXT_PUBLIC_MCPO_PORT environment variable is required but not set">>
    /\ mgr.status = "error"
    /\ procs = <<>>

----------------------------------------------------------------------------
\* the grace sleep of call c ends while the process the handle references
\* has exited
C18_GraceStep(c) ==
    (/\ calls[c].pc = "grace"
     /\ calls'[c].pc # "grace"
     /\ mgr.process # NULL
     /\ Exited(procs[mgr.process]))
        => /\ calls'[c].pc = "rejected"
           /\ mgr'.status = "error"
           /\ mgr'.lastError # NoError
           /\ mgr'.startTime = mgr.startTime

\* C18: if the spawned process has already exited when the 2-second grace
\* window ends, start() treats it as an immediate failure: it records
\* neither startedAt nor status running for that process, sets lastError,
\* ends with status error and throws; status running is recorded only when
\* the process survived the grace window.
C18_ExitInGraceWindowIsFailure ==
    [][\A c \in 1..Len(calls) : C18_GraceStep(c)]_vars

----------------------------------------------------------------------------
\* the force-kill line was logged in this step
ForceKillLogged ==
    \E i \in (Len(mgr.logs) + 1)..Len(mgr'.logs) :
        mgr'.logs[i][2] = <<"MCPO did not stop gracefully, force killing...">>

\* the stop() of call c, made on a held process, leaves its polling loop in
\* this step (or is made in this step and does not enter it)
C20_StopStep(c) ==
    LET held    == mgr.process # NULL /\ mgr.status # "stopped"
        settles == IF c <= Len(calls)
                   THEN calls[c].op = "stop" /\ calls[c].pc = "poll" /\ calls'[c].pc # "poll"
                   ELSE calls'[c].op = "stop" /\ held /\ calls'[c].pc # "poll"
    IN  settles
        => /\ calls'[c].pc = "resolved"
           /\ mgr.process # NULL
           /\ ForceKillLogged <=> Alive(procs[mgr.process])
           /\ mgr'.process = NULL
           /\ mgr'.startTime = NULL
           /\ mgr'.status = "stopped"

\* C20: stop() on a held process always completes: it polls for exit for at
\* most 10 seconds, sends the forceful kill if and only if the process is
\* still alive when polling ends, then clears the process handle and
\* startedAt, sets status stopped and resolves without error.
C20_StopAlwaysCompletes ==
    /\ [](\A c \in 1..Len(calls) :
            calls[c].op = "stop" =>
                /\ calls[c].pc # "rejected"
                /\ calls[c].pc = "poll" => now <= calls[c].t0 + StopTimeoutMs)
    /\ [][\A c \in 1..Len(calls') : C20_StopStep(c)]_vars

----------------------------------------------------------------------------
\* the calls to listeners that the new history records ask for: for each
\* new record in turn, every registered listener in registration order,
\* each handed that record and finding it last in the history and its
\* status current
ExpectedDeliveries(new, listeners) ==
    LET L == Len(listeners)
    IN  [n \in 1..(Len(new) * L) |->
            LET change == new[((n - 1) \div L) + 1]
            IN  [to     |-> listeners[((n - 1) % L) + 1],
                 change |-> change,
                 status |-> change.status,
                 last   |-> <<change>>]]

\* a step of the manager in which the listeners stay registered as they are
C16_Step ==
    LET old == mgr.statusHistory
        new == SubSeq(mgr'.statusHistory, Len(old) + 1, Len(mgr'.statusHistory))
    IN  (mgr' # mgr /\ mgr'.listeners = mgr.listeners)
        => /\ SubSeq(mgr'.statusHistory, 1, Len(old)) = old
           /\ mgr'.emitted = mgr.emitted + Len(new)
           /\ mgr'.status = IF new = <<>> THEN mgr.status ELSE new[Len(new)].status
           /\ \A j \in 1..Len(new) : new[j].timestamp = now
           /\ mgr'.delivered = ExpectedDeliveries(new, mgr.listeners)

\* C16: every status transition appends exactly one {status, timestamp,
\* message} record to the status history and synchronously calls every
\* registered subscriber once, in registration order; when a subscriber is
\* called, getStatus().status is the delivered status and the delivered
\* record is already the last entry of the status history.
C16_TransitionsRecordedAndDelivered ==
    /\ [](Len(mgr.statusHistory) = mgr.emitted)
    /\ [][C16_Step]_vars

\* a restart() made four transitions in one go while two subscribers were
\* registered, the second connection first: eight calls, in that order
C16_Witness ==
    /\ mgr.listeners = <<2, 1>>
    /\ Len(mgr.delivered) = 8
    /\ mgr.delivered[1].to = 2
    /\ mgr.delivered[1].change.status = "restarting"
    /\ mgr.delivered[8].to = 1
    /\ mgr.delivered[8].change.status = "starting"

----------------------------------------------------------------------------
\* C11: for every server list with at least one valid entry,
\* generateConfig() returns a path, and the mcpServers keys of the file it
\* wrote are exactly the validServers computed by that same call and
\* include no id it recorded as invalid, also when the table is written
\* between the two reads the call makes of it.
C11_ConfigKeysAreValidServers ==
    \A g \in 1..Len(gen) :
        gen[g].pc = "done" =>
            /\ gen[g].validServers # <<>> => gen[g].configPath # NULL
            /\ gen[g].configPath # NULL =>
                  /\ DOMAIN gen[g].filteredConfig = Range(gen[g].validServers)
                  /\ DOMAIN gen[g].filteredConfig \cap Range(gen[g].invalidServers) = {}

----------------------------------------------------------------------------
NoneValid(rows) == \A r \in rows : CheckConfig(RowConfig(r)) # Valid

CleanupLogged ==
    \E i \in (Len(mgr.logs) + 1)..Len(mgr'.logs) :
        mgr'.logs[i][2] = <<"Starting cleanup of old config files">>

\* a generateConfig() call reads a table in which no definition validates
C12_Step ==
    LET g == Len(gen) + 1
        c == gen'[g].caller
    IN  (Len(gen') = g /\ NoneValid(db.rows))
        => /\ gen'[g].pc = "done"
           /\ gen'[g].configPath = NULL
           /\ dir' = dir
           /\ ~CleanupLogged
           /\ mgr'.configFile = mgr.configFile
           /\ procs' = procs
           /\ c = 0 => mgr'.lastError = <<"No valid servers found in configuration">>
           /\ c # 0 => /\ calls'[c].pc = "rejected"
                       /\ mgr'.lastError = <<"Failed to generate configuration">>
                       /\ mgr'.status = "error"

\* C12: when no server definition validates (all-invalid or empty list),
\* generateConfig() returns null, writes no new file, performs no retention
\* cleanup and leaves configFile unchanged; a start() that receives this
\* result spawns no process, sets lastError, ends with status error and
\* throws.
C12_NoValidServerNoConfig ==
    /\ [][C12_Step]_vars
    /\ [][\A g \in 1..Len(gen) : gen[g].pc = "done" => gen'[g] = gen[g]]_vars

\* the table holds only invalid definitions, files were left by
\* earlier runs, and a start() has thrown: nothing was written or spawned
C12_Witness ==
    /\ db.rows # {}
    /\ NoneValid(db.rows)
    /\ \E c \in 1..Len(calls) :
          /\ calls[c].op = "start" /\ calls[c].pc = "rejected"
          /\ \E g \in 1..Len(gen) : gen[g].caller = c /\ gen[g].configPath = NULL
    /\ mgr.lastError = <<"Failed to generate configuration">>
    /\ mgr.status = "error"
    /\ mgr.configFile = NULL
    /\ dir = {[timestamp |-> 0 - k, mcpServers |-> <<>>] : k \in 1..MaxLeftover}
    /\ procs = <<>>

----------------------------------------------------------------------------
\* C13: after every successful generateConfig() call the scratch directory
\* holds at most 3 files named mcpo_config_<timestamp>.json, whatever it
\* held before (files of an earlier run of the host included) and however
\* many calls were made.
C13_AtMostThreeConfigFiles ==
    [][\A g \in 1..Len(gen) :
          (gen[g].pc = "write" /\ gen'[g].pc = "done") => Cardinality(dir') <= 3]_vars

----------------------------------------------------------------------------
\* the statuses of the status history, in order
Statuses == [i \in 1..Len(mgr.statusHistory) |-> mgr.statusHistory[i].status]

\* the statuses recorded in this step
NewStatuses ==
    [i \in 1..(Len(mgr'.statusHistory) - Len(mgr.statusHistory)) |->
        mgr'.statusHistory[Len(mgr.statusHistory) + i].status]

\* the restart() of call c passes from its stop() to its start() in this
\* step: no process is spawned in the step, and either no process was held
\* or the stop() has cleared the handle and recorded stopped before the
\* start() records starting
C21_StopThenStart(c) ==
    LET made    == c > Len(calls)
        entered == IF made THEN calls'[c].pc = "gen"
                   ELSE calls[c].pc = "poll" /\ calls'[c].pc = "gen"
        n       == Len(NewStatuses)
    IN  (calls'[c].op = "restart" /\ entered)
        => /\ Len(procs') = Len(procs)
           /\ mgr'.process = NULL
           /\ n >= 1 /\ NewStatuses[n] = "starting"
           /\ \/ made /\ mgr.process = NULL /\ NewStatuses = <<"restarting", "starting">>
              \/ n >= 2 /\ NewStatuses[n - 1] = "stopped"

\* the first call was a start() that brought the process up, the second a
\* restart() made while it was running, which has resolved
C21_RestartedWhileRunning ==
    /\ Len(calls) >= 2
    /\ calls[1].op = "start" /\ calls[2].op = "restart"
    /\ ~calls[2].auto /\ calls[2].pc = "resolved"
    /\ Len(Statuses) >= 3
    /\ SubSeq(Statuses, 1, 3) = <<"starting", "running", "restarting">>

\* the first call was a restart() made with no process held, which has
\* resolved
C21_RestartedWhileStopped ==
    /\ Len(calls) >= 1
    /\ calls[1].op = "restart" /\ calls[1].pc = "resolved"

\* C21: restart() runs stop() then start() strictly in sequence: its
\* start() spawns only after its stop() has cleared the handle and recorded
\* stopped, and a successful restart() of a running process with no other
\* operation in flight appends exactly restarting, stopping, stopped,
\* starting, running to the status history (restarting, starting, running
\* when no process was held).
C21_RestartIsStopThenStart ==
    /\ [][\A c \in 1..Len(calls') : C21_StopThenStart(c)]_vars
    /\ [](C21_RestartedWhileRunning =>
            /\ Len(Statuses) >= 7
            /\ SubSeq(Statuses, 3, 7) =
                  <<"restarting", "stopping", "stopped", "starting", "running">>)
    /\ [](C21_RestartedWhileStopped =>
            /\ Len(Statuses) >= 3
            /\ SubSeq(Statuses, 1, 3) = <<"restarting", "starting", "running">>)

----------------------------------------------------------------------------
\* C22: status running is entered only from status starting: in the status
\* history produced by any interleaving of start(), stop(), restart(),
\* process exits and timer firings, every running record is immediately
\* preceded by a starting record.
C22_RunningOnlyFromStarting ==
    \A i \in 1..Len(Statuses) :
        Statuses[i] = "running" => (i > 1 /\ Statuses[i - 1] = "starting")

----------------------------------------------------------------------------
\* a caller outside the supervisor calls start() or restart() in this step
ExternalStart ==
    /\ Len(calls') = Len(calls) + 1
    /\ ~calls'[Len(calls')].auto
    /\ calls'[Len(calls')].op \in {"start", "restart"}

\* a stop() has set status stopped and it still is
StoppedByStop ==
    /\ mgr.status = "stopped"
    /\ mgr.statusHistory # <<>>

\* C23: stopped is stable: once a stop() call has set status to stopped,
\* status stays stopped and no process is spawned until some external
\* caller next invokes start() or restart(); neither a previously scheduled
\* auto-restart timer, a late process event, nor the resumption of an
\* in-flight start() takes the supervisor out of stopped.
C23_StoppedIsStable ==
    [][(StoppedByStop /\ ~ExternalStart)
          => (mgr'.status = "stopped" /\ Len(procs') = Len(procs))]_vars

----------------------------------------------------------------------------
\* C24: whenever status is running, the process handle is non-null and the
\* process it references has not exited, with an exit code or by a signal.
C24_RunningMeansAlive ==
    mgr.status = "running" =>
        (mgr.process # NULL /\ Alive(procs[mgr.process]))

----------------------------------------------------------------------------
\* the stop() of call c leaves its polling loop in this step, a second
\* stop() having been called while a first one was polling
C25_SettleStep(c) ==
    (/\ Cardinality(StopCalls) = 2
     /\ calls[c].op = "stop"
     /\ calls[c].pc = "poll"
     /\ calls'[c].pc # "poll")
        => /\ calls'[c].pc = "resolved"
           /\ mgr'.lastError = mgr.lastError
           /\ (\A d \in StopCalls : calls'[d].pc # "poll")
                 => (mgr'.status = "stopped" /\ mgr'.process = NULL)

\* C25: overlapping stop() calls are harmless: if stop() is called while an
\* earlier stop() on the same process is still polling for exit, both calls
\* resolve without throwing and the final state is status stopped with a
\* null process handle and lastError unchanged.
C25_OverlappingStopsAreHarmless ==
    /\ [](\A c \in StopCalls : calls[c].pc # "rejected")
    /\ [][\A c \in 1..Len(calls) : C25_SettleStep(c)]_vars

----------------------------------------------------------------------------
\* a URL that begins with an HTTP(S) scheme
HasHttpScheme(chars) ==
    \/ StartsWith(chars, http \o <<":", "/", "/">>)
    \/ StartsWith(chars, http \o <<"s", ":", "/", "/">>)

\* the stated rules: Valid, or the kind of the definition that fails them
\* (local, remote) or other for a definition of neither kind
RuleVerdict(config) ==
    IF config.t = "object" /\ HasKey(config, "command")
    THEN IF ~Falsy(GetKey(config, "command")) /\ GetKey(config, "args").t = "array"
         THEN Valid ELSE <<"local">>
    ELSE IF config.t = "object" /\ HasKey(config, "type") /\ HasKey(config, "url")
    THEN LET type == GetKey(config, "type")
             url  == GetKey(config, "url")
         IN  IF /\ type.t = "string" /\ type.chars \in {sse, streamableHttp}
                /\ url.t = "string" /\ url.chars # <<>> /\ HasHttpScheme(url.chars)
             THEN Valid ELSE <<"remote">>
    ELSE <<"other">>

\* the error recorded for the server with this id
ErrorOf(id) ==
    LET e == val.result.errors
    IN  e[CHOOSE k \in 1..Len(e) : e[k].server = id].error

\* the example of the specification
C26_Example ==
    <<[uniqueId |-> <<>>, name |-> Name(1),
       config |-> JsObject([command |-> JsString(<<>>), args |-> JsArray(<<>>)])],
      [uniqueId |-> UniqueId(2), name |-> Name(2),
       config |-> JsObject([type |-> JsString(sse),
                            url |-> JsString(http \o <<":", "/", "/", "x">>)])]>>

\* C26: validateServers() accepts a definition if and only if it satisfies
\* the stated rules: a local definition is valid iff command is non-empty
\* and args is an array; a remote one iff type is 'sse' or
\* 'streamable-http' and url is a non-empty string beginning with http://
\* or https://; any other shape is invalid with message 'Invalid server
\* configuration'.  For [{a, command ''}, {b, sse, http://x}] the result is
\* invalid = {a: 'Missing command'}, valid = [b].
C26_ValidationFollowsRules ==
    (val.done /\ Cardinality(Range(InputIds)) = Len(InputIds)) =>
        /\ \A i \in 1..Len(val.servers) :
              LET id      == InputIds[i]
                  verdict == RuleVerdict(val.servers[i].config)
              IN  /\ id \in Range(val.result.validServers) <=> verdict = Valid
                  /\ verdict = <<"other">> =>
                        ErrorOf(id) = <<"Invalid server configuration">>
        /\ val.servers = C26_Example =>
              /\ val.result.validServers = <<UniqueId(2)>>
              /\ val.result.errors =
                    <<[server |-> Name(1), error |-> <<"Missing command">>]>>

----------------------------------------------------------------------------
\* the log lines written in this step
NewLogs ==
    {mgr'.logs[i][2] : i \in (Len(mgr.logs) + 1)..Len(mgr'.logs)}

\* the error generateConfig() reports when it gives up at the given step
FailureMessage(failed) ==
    CASE failed = "read1"      -> <<"Can't reach database server">>
      [] failed = "read2"      -> <<"Can't reach database server">>
      [] failed = "validation" -> <<"No valid servers found in configuration">>
      [] failed = "mkdir"      -> <<"EACCES: permission denied, mkdir">>
      [] failed = "writeFile"  -> <<"ENOSPC: no space left on device, write">>

\* generateConfig() call g returns in this step
C27_ReturnStep(g) ==
    LET returns == /\ gen'[g].pc = "done"
                   /\ g <= Len(gen) => gen[g].pc # "done"
        call    == gen'[g]
        stale   == Cardinality(dir) > 3
    IN  returns
        => /\ call.configPath = NULL <=> call.failed # "none"
           /\ call.failed # "none" =>
                 /\ mgr'.lastError = FailureMessage(call.failed)
                 /\ mgr'.configFile = mgr.configFile
                 /\ <<"Failed to generate config">> \o mgr'.lastError \in NewLogs
           /\ call.failed = "none" =>
                 /\ mgr'.configFile = call.configPath
                 /\ mgr'.lastError = mgr.lastError
                 /\ ~call.fs.readdir =>
                       <<"Warning: Could not cleanup old config files">> \in NewLogs
                 /\ (call.fs.readdir /\ ~call.fs.unlink /\ stale) =>
                       \E f \in dir : <<"Failed to delete", f.timestamp>> \in NewLogs

----------------------------------------------------------------------------
\* the generateConfig() calls made by a start() that went on to spawn, in
\* the order of the calls: the p-th of them gave its path to process p
SpawningCalls ==
    SelectSeq([g \in 1..Len(gen) |-> g],
              LAMBDA g : /\ gen[g].caller # 0
                         /\ gen[g].pc = "done"
                         /\ gen[g].configPath # NULL)

\* the path given to process p on its command line
ConfigPassedTo(p) == gen[SpawningCalls[p]].configPath

\* C28: the config file whose path was passed to a spawned process is never
\* deleted by the supervisor while that process is starting or running, and
\* while status is running getStatus().configFile is that path, also when
\* generateConfig() is invoked directly or by an overlapping start().
C28_ConfigOfLiveProcessIsKept ==
    \A p \in 1..Len(procs) :
        (/\ mgr.process = p
         /\ Alive(procs[p])
         /\ mgr.status \in {"starting", "running"})
            => /\ \E f \in dir : f.timestamp = ConfigPassedTo(p)
               /\ mgr.status = "running" => GetStatus.configFile = ConfigPassedTo(p)

----------------------------------------------------------------------------
\* what the caller finds now in the k-th array it was handed
ItemsNow(k) ==
    Items(buf.arrays[k].array,
          IF buf.arrays[k].of = "logs" THEN mgr.logs ELSE mgr.statusHistory)

----------------------------------------------------------------------------
\* C30: lastError is never cleared: once any operation has set lastError to
\* a non-null string, no operation (a later successful start(), stop() or
\* restart() included) resets it to null; it can only be overwritten by a
\* newer error, so getStatus().lastError is non-null in every later state,
\* also when status is running.
C30_LastErrorNeverCleared ==
    /\ [](GetStatus.lastError = mgr.lastError)
    /\ [][mgr.lastError # NoError => mgr'.lastError # NoError]_vars

\* a start() failed, a later start() succeeded: status is running and
\* getStatus() still reports the error of the first
C30_Witness ==
    /\ mgr.status = "running"
    /\ mgr.process # NULL
    /\ Alive(procs[mgr.process])
    /\ Len(calls) = 2
    /\ calls[1].op = "start" /\ calls[1].pc = "rejected"
    /\ calls[2].op = "start" /\ calls[2].pc = "resolved"
    /\ GetStatus.lastError = <<"Failed to generate configuration">>

====
